---------------------------- MODULE Spec2Model ----------------------------
(***************************************************************************)
(* Model of src/app.py (BIMI report generator): the history aggregation    *)
(* step of load_data, BIMIFetcher.analyze_giving_pattern,                  *)
(* BIMIFetcher.classify_donors_smart, the statement parser                 *)
(* BIMIFetcher.parse_financial_data_multiline, and the requests login,     *)
(* load_data, dashboard and logout on the shared data_store.               *)
(*                                                                         *)
(* Conventions.                                                            *)
(*  - A Python dict is a sequence of entries [key, val] in insertion       *)
(*    order (the order in which dict.items() yields them).                 *)
(*  - A 'date' string "YYYY-MM" is the sequence of its six decimal digits  *)
(*    (the '-' sits at a fixed position and is left out); strings are      *)
(*    compared digit by digit, as Python compares them.                    *)
(*  - Amounts are whole numbers of dollars; the float comparisons of the   *)
(*    code (x / y * 100 > 50, c / n >= 0.8, m >= s / n) are cross          *)
(*    multiplied, which is exact on the values used here.                  *)
(*  - datetime.now() is one (year, month) reading per classification run.  *)
(***************************************************************************)
EXTENDS Integers, Sequences, FiniteSets, TLC

VARIABLES
    pc,                    \* position of the run being modelled
    donor_history,         \* load_data / classify_donors_smart: donor_history
    successful_months,     \* load_data: successful_months
    month_index,           \* load_data: i, the iterations of the month loop done
    ingested,              \* dict: each period handed to the loop -> the month_data first handed for it
    repeated,              \* some period was handed to the loop more than once
    donor_id,              \* analyze_giving_pattern: donor_id
    pattern,               \* analyze_giving_pattern: the returned tuple
    current_month_donors,  \* classify_donors_smart: current_month_donors
    now,                   \* classify_donors_smart: datetime.now() as <<year, month>>
    new_donors,            \* classify_donors_smart: new_donors
    changed_donors,        \* classify_donors_smart: changed_donors
    missed_donors,         \* classify_donors_smart: missed_donors
    normal_donors,         \* classify_donors_smart: normal_donors
    text_data,             \* parse_financial_data_multiline: text_data, as its lines
    line_index,            \* parse_financial_data_multiline: i
    in_donor_section,      \* parse_financial_data_multiline: in_donor_section
    parsed_donors,         \* parse_financial_data_multiline: donors
    fetched_month_data,    \* load_data: month_data, what fetch_monthly_data returned
    parse_calls,           \* calls of parse_financial_data_multiline made for the period
    record_lines,          \* history: for each record of donors, the index of the line it came from
    address_lines,         \* history: the indexes of the lines skipped as address lines
    data_store,            \* data_store: 0 when session_id is not a key, else the entry object it maps to
    entries,               \* the entry objects ever put in data_store, in creation order
    load_requests,         \* the load_data requests in flight: position and request-local variables
    dashboard_request,     \* the dashboard request in flight: position and session_data
    completed_loads        \* history: the donor_history of every load_data run that reached its update

vars == <<pc, donor_history, successful_months, month_index, ingested, repeated,
          donor_id, pattern,
          current_month_donors, now, new_donors, changed_donors,
          missed_donors, normal_donors,
          text_data, line_index, in_donor_section, parsed_donors, fetched_month_data,
          parse_calls,
          record_lines, address_lines,
          data_store, entries, load_requests, dashboard_request, completed_loads>>

parserVars == <<text_data, line_index, in_donor_section, parsed_donors, fetched_month_data,
          parse_calls,
                record_lines, address_lines>>

analysisVars == <<ingested, repeated, donor_id, pattern, current_month_donors, now,
                  new_donors, changed_donors, missed_donors, normal_donors>>

sessionVars == <<data_store, entries, load_requests, dashboard_request, completed_loads>>

None == "None"

\* a month without a gift of the donor
NoGift == [amount |-> 0 - 1, name |-> "", city |-> "", state |-> ""]

\* fetch_monthly_data returned None
NoData == [ok |-> FALSE, donors |-> << >>]

\* no pattern computed yet
NoPattern == [frequency |-> None, confidence |-> None, typical_amount |-> 0,
              avg_interval |-> [sum |-> 0, len |-> 1]]

\* the load_data requests that may be in flight at once
LoadIds == {1, 2}

\* a load_data request that has not arrived or has returned
IdleLoad == [pc |-> "idle", donor_history |-> << >>, month_index |-> 0,
             successful_months |-> 0]

\* a dashboard request that has not arrived or has returned
IdleDashboard == [pc |-> "idle", session_data |-> 0]

\* no statement is being parsed
ParserIdle ==
    /\ text_data = << >>
    /\ line_index = 0
    /\ in_donor_section = FALSE
    /\ parsed_donors = << >>
    /\ fetched_month_data = NoData
    /\ parse_calls = 0
    /\ record_lines = << >>
    /\ address_lines = {}

\* data_store = {} and no request in flight
SessionIdle ==
    /\ data_store = 0
    /\ entries = << >>
    /\ load_requests = [r \in LoadIds |-> IdleLoad]
    /\ dashboard_request = IdleDashboard
    /\ completed_loads = {}

(***************************************************************************)
(* Bounds of the model.                                                    *)
(***************************************************************************)
\* months handed to the ingestion step in one load (total_months is 12 in the code)
TotalMonths == 3
\* donor records in one parsed statement
MaxStatementLen == 2
\* gifts of the donor handed to the analyzer, intervals and amounts both varied
MaxGifts == 4
\* gifts of the donor handed to the analyzer, intervals of 1 and 2 months and one amount
MaxLongGifts == 6
\* events in the history handed to the classifier, all donors together
MaxHistoryEvents == 4
\* donor records in the current-period list handed to the classifier
MaxCurrentLen == 2
\* lines of one raw statement text
MaxLines == 4
\* months one load_data request loads in the session runs (total_months is 12 in the code)
SessionMonths == 2
\* successful logins in one session run
MaxLogins == 2

(***************************************************************************)
(* Sequences and dicts.                                                    *)
(***************************************************************************)
Range(s) == {s[i] : i \in 1..Len(s)}

SeqsUpTo(S, n) == UNION {[1..k -> S] : k \in 0..n}

\* key in d
Has(d, k) == \E i \in 1..Len(d) : d[i].key = k

\* d[k]
Get(d, k) == d[CHOOSE i \in 1..Len(d) : d[i].key = k].val

\* d[k] = v
Put(d, k, v) ==
    IF Has(d, k)
    THEN [i \in 1..Len(d) |-> IF d[i].key = k THEN [key |-> k, val |-> v] ELSE d[i]]
    ELSE Append(d, [key |-> k, val |-> v])

Keys(d) == {d[i].key : i \in 1..Len(d)}

(***************************************************************************)
(* Dates: f"{year_val}-{month_val:02d}", string comparison, and parsing.   *)
(***************************************************************************)
\* f"{year_val}-{month_val:02d}" for a four-digit year
MonthKey(year_val, month_val) ==
    << year_val \div 1000, (year_val \div 100) % 10, (year_val \div 10) % 10,
       year_val % 10, month_val \div 10, month_val % 10 >>

RECURSIVE StrLessFrom(_, _, _)
StrLessFrom(a, b, i) ==
    IF i > Len(a) THEN i <= Len(b)
    ELSE IF i > Len(b) THEN FALSE
    ELSE IF a[i] # b[i] THEN a[i] < b[i]
    ELSE StrLessFrom(a, b, i + 1)

\* a < b on Python strings
StrLess(a, b) == StrLessFrom(a, b, 1)

\* datetime.strptime(date, '%Y-%m').year and int(date.split('-')[0])
DateYear(date) == date[1] * 1000 + date[2] * 100 + date[3] * 10 + date[4]

\* datetime.strptime(date, '%Y-%m').month and int(date.split('-')[1])
DateMonth(date) == date[5] * 10 + date[6]

(***************************************************************************)
(* History Aggregator: the body of load_data's month loop.                 *)
(***************************************************************************)
\* load_data, one donor of month_data['donors'], always appending (no existing_dates check)
MutIngestDonor(h, month_key, donor) ==
    LET gifts == IF Has(h, donor.donor_number) THEN Get(h, donor.donor_number) ELSE << >>
    IN Put(h, donor.donor_number,
           Append(gifts, [date |-> month_key, amount |-> donor.amount,
                          name |-> donor.name, city |-> donor.city,
                          state |-> donor.state]))

\* load_data, one donor of month_data['donors']
IngestDonor(h, month_key, donor) ==
    LET h1 == IF Has(h, donor.donor_number) THEN h ELSE Put(h, donor.donor_number, << >>)
        gifts == Get(h1, donor.donor_number)
        existing_dates == [i \in 1..Len(gifts) |-> gifts[i].date]
    IN IF month_key \notin Range(existing_dates)
       THEN Put(h1, donor.donor_number,
                Append(gifts, [date |-> month_key, amount |-> donor.amount,
                               name |-> donor.name, city |-> donor.city,
                               state |-> donor.state]))
       ELSE h1

RECURSIVE IngestDonors(_, _, _, _)
\* for donor in month_data['donors'], from index i on
IngestDonors(h, month_key, donors, i) ==
    IF i > Len(donors) THEN h
    ELSE IngestDonors(IngestDonor(h, month_key, donors[i]), month_key, donors, i + 1)

\* month_data and month_data.get('donors')
HasDonors(month_data) == month_data.ok /\ Len(month_data.donors) > 0

\* the donor_history after one iteration of the month loop
Ingest(h, year_val, month_val, month_data) ==
    IF HasDonors(month_data)
    THEN IngestDonors(h, MonthKey(year_val, month_val), month_data.donors, 1)
    ELSE h

(***************************************************************************)
(* Pattern Analyzer.                                                       *)
(***************************************************************************)
RECURSIVE InsertByDate(_, _)
\* one insertion of a stable sort by x['date']
InsertByDate(sorted, x) ==
    IF sorted = << >> THEN << x >>
    ELSE IF StrLess(x.date, sorted[Len(sorted)].date)
         THEN Append(InsertByDate(SubSeq(sorted, 1, Len(sorted) - 1), x), sorted[Len(sorted)])
         ELSE Append(sorted, x)

RECURSIVE SortFrom(_, _, _)
SortFrom(gifts, i, acc) ==
    IF i > Len(gifts) THEN acc
    ELSE SortFrom(gifts, i + 1, InsertByDate(acc, gifts[i]))

\* gifts left as stored: the sort is missing
MutSortGifts(gifts) == gifts

\* gifts.sort(key=lambda x: x['date'])
SortGifts(gifts) == SortFrom(gifts, 1, << >>)

\* analyze_giving_pattern's effect on donor_history: the in-place sort of the donor's gifts
AnalyzeSorts(h, d) ==
    IF ~Has(h, d) \/ Len(Get(h, d)) < 2 THEN h
    ELSE Put(h, d, SortGifts(Get(h, d)))

RECURSIVE AnalyzeAllFrom(_, _)
\* the in-place sorts of one pass of 'for donor_id, history in donor_history.items()'
AnalyzeAllFrom(h, i) ==
    IF i > Len(h) THEN h
    ELSE AnalyzeAllFrom(AnalyzeSorts(h, h[i].key), i + 1)

AnalyzeAll(h) == AnalyzeAllFrom(h, 1)

\* (current_date.year - previous_date.year) * 12 + (current_date.month - previous_date.month)
MonthsDiff(current_date, previous_date) ==
    (DateYear(current_date) - DateYear(previous_date)) * 12
        + (DateMonth(current_date) - DateMonth(previous_date))

\* intervals: the months between consecutive gifts
Intervals(gifts) ==
    [n \in 1..(Len(gifts) - 1) |-> MonthsDiff(gifts[n + 1].date, gifts[n].date)]

RECURSIVE CounterFrom(_, _, _)
\* collections.Counter(xs): a dict of counts, keys in first-seen order
CounterFrom(xs, n, c) ==
    IF n > Len(xs) THEN c
    ELSE CounterFrom(xs, n + 1, Put(c, xs[n], IF Has(c, xs[n]) THEN Get(c, xs[n]) + 1 ELSE 1))

Counter(xs) == CounterFrom(xs, 1, << >>)

\* counter.most_common(1)[0]: max() over items() by count, the first of the entries with the highest count
MostCommon(c) ==
    c[CHOOSE n \in 1..Len(c) :
        /\ \A m \in 1..Len(c) : c[m].val <= c[n].val
        /\ \A m \in 1..(n - 1) : c[m].val < c[n].val]

RECURSIVE SumFrom(_, _)
SumFrom(xs, n) == IF n > Len(xs) THEN 0 ELSE xs[n] + SumFrom(xs, n + 1)

\* sum(xs)
Sum(xs) == SumFrom(xs, 1)

Digit(d) ==
    CASE d = 0 -> "0" [] d = 1 -> "1" [] d = 2 -> "2" [] d = 3 -> "3" [] d = 4 -> "4"
      [] d = 5 -> "5" [] d = 6 -> "6" [] d = 7 -> "7" [] d = 8 -> "8" [] d = 9 -> "9"

RECURSIVE Decimal(_)
\* str(k) for k >= 0
Decimal(k) == IF k < 10 THEN Digit(k) ELSE Decimal(k \div 10) \o Digit(k % 10)

\* frequency_map.get(most_common_interval, f"Every {most_common_interval} Months")
FrequencyName(most_common_interval) ==
    CASE most_common_interval = 1 -> "Monthly"
      [] most_common_interval = 2 -> "Bi-Monthly"
      [] most_common_interval = 3 -> "Quarterly"
      [] most_common_interval = 4 -> "Every 4 Months"
      [] most_common_interval = 6 -> "Semi-Annual"
      [] most_common_interval = 12 -> "Annual"
      [] OTHER -> "Every " \o Decimal(most_common_interval) \o " Months"

\* the tuple analyze_giving_pattern returns; avg_interval is the fraction sum / len
Pattern(frequency, confidence, typical_amount, interval_sum, interval_len) ==
    [frequency |-> frequency, confidence |-> confidence, typical_amount |-> typical_amount,
     avg_interval |-> [sum |-> interval_sum, len |-> interval_len]]

\* the first test taken as 'fewer than 1 gift'
MutTooFewGifts(d, h) == ~Has(h, d) \/ Len(Get(h, d)) < 1

\* donor_id not in donor_history or len(donor_history[donor_id]) < 2
TooFewGifts(d, h) == ~Has(h, d) \/ Len(Get(h, d)) < 2

\* confidence with the High branch open to 3 gifts
MutConfidence(count, n_intervals, n_gifts) ==
    IF 10 * count >= 8 * n_intervals /\ n_gifts >= 3 THEN "High"
    ELSE IF 10 * count >= 6 * n_intervals /\ n_gifts >= 3 THEN "Medium"
    ELSE "Low"

\* the confidence branches: consistency = count / len(intervals) against 0.8 and 0.6
Confidence(count, n_intervals, n_gifts) ==
    IF 10 * count >= 8 * n_intervals /\ n_gifts >= 4 THEN "High"
    ELSE IF 10 * count >= 6 * n_intervals /\ n_gifts >= 3 THEN "Medium"
    ELSE "Low"

\* typical_amount: amount_counter.most_common(1)[0][0] if amount_counter else sum(amounts) / len(amounts)
\* (the else branch needs an empty amounts list, where the division raises; no call reaches it)
TypicalAmount(amounts) ==
    LET amount_counter == Counter(amounts)
    IN IF Len(amount_counter) > 0
       THEN MostCommon(amount_counter).key
       ELSE Sum(amounts) \div Len(amounts)

\* analyze_giving_pattern(donor_id, donor_history): the returned tuple
AnalyzePattern(d, h) ==
    IF TooFewGifts(d, h) THEN Pattern("One-Time", "Low", 0, 0, 1)
    ELSE
        LET gifts == SortGifts(Get(h, d))
            intervals == Intervals(gifts)
            amounts == [n \in 1..Len(gifts) |-> gifts[n].amount]
            typical_amount == TypicalAmount(amounts)
        IN IF Len(intervals) = 0 THEN Pattern("One-Time", "Low", typical_amount, 0, 1)
           ELSE
               LET top == MostCommon(Counter(intervals))
                   most_common_interval == top.key
                   count == top.val
                   confidence == Confidence(count, Len(intervals), Len(gifts))
                   frequency == IF confidence = "Low" THEN "Variable"
                                ELSE FrequencyName(most_common_interval)
               IN Pattern(frequency, confidence, typical_amount, Sum(intervals), Len(intervals))

(***************************************************************************)
(* Donor Classifier.                                                       *)
(***************************************************************************)
RECURSIVE DictByNumberFrom(_, _, _)
DictByNumberFrom(donors, n, c) ==
    IF n > Len(donors) THEN c
    ELSE DictByNumberFrom(donors, n + 1, Put(c, donors[n].donor_number, donors[n]))

\* current_month_dict = {d['donor_number']: d for d in current_month_donors}
CurrentMonthDict(donors) == DictByNumberFrom(donors, 1, << >>)

\* a float x / y * 100 (or the literal 0) as the fraction num / den, den > 0
Percent(num, den) == [num |-> num, den |-> den]

Abs(x) == IF x < 0 THEN 0 - x ELSE x

\* {**donor, 'frequency': ..., 'confidence': ..., 'typical_amount': ..., 'change_amount': ..., 'change_percent': ...}
DonorData(donor, frequency, confidence, typical_amount, change, change_percent) ==
    [donor_number |-> donor.donor_number, name |-> donor.name,
     original_name |-> donor.original_name, amount |-> donor.amount,
     city |-> donor.city, state |-> donor.state,
     frequency |-> frequency, confidence |-> confidence,
     typical_amount |-> typical_amount, change_amount |-> change,
     change_percent |-> change_percent]

\* len(history) == 1
OnlyOneGift(history, pat) == Len(history) = 1

\* the test for Changed taken as 'at least 50'
MutMajorChange(change_percent) == Abs(change_percent.num) >= 50 * change_percent.den

\* abs(change_percent) > 50
MajorChange(change_percent) == Abs(change_percent.num) > 50 * change_percent.den

RECURSIVE MaxDateFrom(_, _, _)
MaxDateFrom(gifts, n, best) ==
    IF n > Len(gifts) THEN best
    ELSE MaxDateFrom(gifts, n + 1, IF StrLess(best, gifts[n].date) THEN gifts[n].date ELSE best)

\* max([g['date'] for g in history])
MaxDate(gifts) == MaxDateFrom(gifts, 2, gifts[1].date)

\* frequency != "One-Time" and confidence in ["High", "Medium"]
MissedEligible(pat) == pat.frequency # "One-Time" /\ pat.confidence \in {"High", "Medium"}

\* (current_year - last_year) * 12 + (current_month - last_month)
MonthsSince(last_gift_date, clock) ==
    (clock[1] - DateYear(last_gift_date)) * 12 + (clock[2] - DateMonth(last_gift_date))

\* the test for Missed taken as 'more than the average interval'
MutOverdue(months_since, avg_interval) == months_since * avg_interval.len > avg_interval.sum

\* months_since >= avg_interval
Overdue(months_since, avg_interval) == months_since * avg_interval.len >= avg_interval.sum

\* the dict appended to missed_donors
MissedEntry(d, history, pat) ==
    [donor_number |-> d, name |-> history[1].name, city |-> history[1].city,
     state |-> history[1].state, frequency |-> pat.frequency,
     confidence |-> pat.confidence, typical_amount |-> pat.typical_amount,
     expected_amount |-> pat.typical_amount]

\* one iteration of 'for donor_id, history in donor_history.items()': the four lists after it
ClassifyOne(lists, h, d, current_month_dict, clock) ==
    LET pat == AnalyzePattern(d, h)
        history == Get(AnalyzeSorts(h, d), d)
    IN IF Has(current_month_dict, d)
       THEN LET current_gift == Get(current_month_dict, d).amount
                change == current_gift - pat.typical_amount
                change_percent == IF pat.typical_amount > 0
                                  THEN Percent(change * 100, pat.typical_amount)
                                  ELSE Percent(0, 1)
                donor_data == DonorData(Get(current_month_dict, d), pat.frequency,
                                        pat.confidence, pat.typical_amount, change,
                                        change_percent)
            IN IF OnlyOneGift(history, pat)
               THEN [lists EXCEPT !.new = Append(@, donor_data)]
               ELSE IF MajorChange(change_percent)
                    THEN [lists EXCEPT !.changed = Append(@, donor_data)]
                    ELSE [lists EXCEPT !.normal = Append(@, donor_data)]
       ELSE IF MissedEligible(pat)
                 /\ Overdue(MonthsSince(MaxDate(history), clock), pat.avg_interval)
            THEN [lists EXCEPT !.missed = Append(@, MissedEntry(d, history, pat))]
            ELSE lists

RECURSIVE ClassifyHistoryFrom(_, _, _, _, _)
\* 'for donor_id, history in donor_history.items()', from the n-th entry on
ClassifyHistoryFrom(lists, h, n, current_month_dict, clock) ==
    IF n > Len(h) THEN lists
    ELSE ClassifyHistoryFrom(ClassifyOne(lists, h, h[n].key, current_month_dict, clock),
                             AnalyzeSorts(h, h[n].key), n + 1, current_month_dict, clock)

\* the second loop's test taken as always true
MutNotInHistory(h, d) == TRUE

\* donor['donor_number'] not in donor_history
NotInHistory(h, d) == ~Has(h, d)

RECURSIVE AddTrulyNewFrom(_, _, _, _)
\* 'for donor in current_month_donors', from the n-th donor on
AddTrulyNewFrom(lists, donors, h, n) ==
    IF n > Len(donors) THEN lists
    ELSE AddTrulyNewFrom(
            IF NotInHistory(h, donors[n].donor_number)
            THEN [lists EXCEPT !.new =
                    Append(@, DonorData(donors[n], "One-Time", "Low", donors[n].amount, 0,
                                        Percent(0, 1)))]
            ELSE lists,
            donors, h, n + 1)

\* classify_donors_smart(current_month_donors, donor_history): the four lists returned
ClassifyDonorsSmart(donors, h, clock) ==
    AddTrulyNewFrom(
        ClassifyHistoryFrom([new |-> << >>, changed |-> << >>, normal |-> << >>, missed |-> << >>],
                            h, 1, CurrentMonthDict(donors), clock),
        donors, h, 1)

(***************************************************************************)
(* Inputs of the ingestion runs.                                           *)
(***************************************************************************)
\* the months a load may be asked for, as <<year_val, month_val>>
Periods == { <<2025, 12>>, <<2026, 1>>, <<2026, 2>> }

\* donor records as the parser returns them
DonorRecord(num, amt, nm, cty, st) ==
    [donor_number |-> num, name |-> nm, original_name |-> nm, amount |-> amt,
     city |-> cty, state |-> st]

StatementDonors ==
    { DonorRecord("4521", 100, "JOHN A SMITH", "SPRINGFIELD", "IL"),
      DonorRecord("4521", 250, "J SMITH", "", ""),
      DonorRecord("77", 100, "GRACE CHURCH", "", "") }

\* what fetch_monthly_data returns: None, or totals with a donor list
MonthDatas ==
    {NoData} \cup
    { [ok |-> TRUE, donors |-> ds] : ds \in SeqsUpTo(StatementDonors, MaxStatementLen) }

(***************************************************************************)
(* The ingestion run: load_data's loop, the publication of the history,    *)
(* and the first read of it by the analyzer.  The loop of the code asks    *)
(* for the current month and the eleven before it, newest first; here any  *)
(* month may be handed to an iteration, in any order and more than once.   *)
(***************************************************************************)
InitIngest ==
    /\ pc = "loading"
    /\ donor_history = << >>
    /\ successful_months = 0
    /\ month_index = 0
    /\ ingested = << >>
    /\ repeated = FALSE
    /\ donor_id = None
    /\ pattern = NoPattern
    /\ current_month_donors = << >>
    /\ now = <<0, 0>>
    /\ new_donors = << >>
    /\ changed_donors = << >>
    /\ missed_donors = << >>
    /\ normal_donors = << >>
    /\ ParserIdle
    /\ SessionIdle

\* one iteration of 'for i in range(total_months)', for any month and any fetch result
IngestMonth ==
    /\ pc = "loading"
    /\ month_index < TotalMonths
    /\ \E p \in Periods, month_data \in MonthDatas :
          /\ donor_history' = Ingest(donor_history, p[1], p[2], month_data)
          /\ successful_months' = IF HasDonors(month_data)
                                  THEN successful_months + 1 ELSE successful_months
          /\ ingested' = IF Has(ingested, p) THEN ingested
                         ELSE Append(ingested, [key |-> p, val |-> month_data])
          /\ repeated' = (repeated \/ Has(ingested, p))
    /\ month_index' = month_index + 1
    /\ UNCHANGED <<pc, donor_id, pattern, current_month_donors, now, new_donors,
                   changed_donors, missed_donors, normal_donors>>
    /\ UNCHANGED <<parserVars, sessionVars>>

\* data_store[session_id].update({'donor_history': donor_history, 'data_loaded': True})
Publish ==
    /\ pc = "loading"
    /\ month_index = TotalMonths
    /\ pc' = "loaded"
    /\ UNCHANGED <<donor_history, successful_months, month_index, ingested, repeated,
                   donor_id, pattern, current_month_donors, now, new_donors,
                   changed_donors, missed_donors, normal_donors>>
    /\ UNCHANGED <<parserVars, sessionVars>>

\* the dashboard's pass over the published history: every donor's gifts are sorted in place
ReadByAnalyzer ==
    /\ pc = "loaded"
    /\ pc' = "read"
    /\ donor_history' = AnalyzeAll(donor_history)
    /\ UNCHANGED <<successful_months, month_index, ingested, repeated, donor_id, pattern,
                   current_month_donors, now, new_donors, changed_donors,
                   missed_donors, normal_donors>>
    /\ UNCHANGED <<parserVars, sessionVars>>

NextIngest == IngestMonth \/ Publish \/ ReadByAnalyzer

SpecIngest == InitIngest /\ [][NextIngest]_vars

(***************************************************************************)
(* Claims about the History Aggregator, checked under SpecIngest.          *)
(***************************************************************************)
\* a dict as the mapping it denotes, whatever the insertion order of its keys
AsMap(h) == [k \in Keys(h) |-> Get(h, k)]

\* C2: from every history an ingestion run reaches, ingesting a (period, donor
\* list) twice yields the history that ingesting it once yields: the second
\* ingest adds no event and changes none.
IdempotentReingest ==
    pc = "loading" =>
        \A p \in Periods, month_data \in MonthDatas :
            LET once == Ingest(donor_history, p[1], p[2], month_data)
            IN Ingest(once, p[1], p[2], month_data) = once

\* a statement with two donor lines was ingested and its period was handed to the
\* loop again, into a history that holds its events
WitnessIdempotentReingest ==
    /\ pc = "loading"
    /\ repeated
    /\ Len(ingested) = 1
    /\ Len(ingested[1].val.donors) = 2
    /\ Len(donor_history) = 2

RECURSIVE Replay(_, _, _, _)
\* the donor_history after ingesting the months log[order[n]], log[order[n+1]], ... into h
Replay(h, log, order, n) ==
    IF n > Len(log) THEN h
    ELSE Replay(Ingest(h, log[order[n]].key[1], log[order[n]].key[2], log[order[n]].val),
                log, order, n + 1)

\* C3: when the ingested periods are distinct, ingesting them in any other call
\* order yields the same history, each donor's events read in period-ascending
\* order (as the analyzer leaves them).
OrderIndependent ==
    (pc = "read" /\ ~repeated) =>
        \A order \in Permutations(1..Len(ingested)) :
            AsMap(AnalyzeAll(Replay(<< >>, ingested, order, 1))) = AsMap(donor_history)

\* three distinct periods were ingested newest first and a donor gave in all three
WitnessOrderIndependent ==
    /\ pc = "read"
    /\ ~repeated
    /\ Len(ingested) = 3
    /\ ingested[1].key = <<2026, 2>>
    /\ ingested[3].key = <<2026, 1>>
    /\ \E e \in 1..Len(donor_history) : Len(donor_history[e].val) = 3

\* every donor has at most one giving event per period
OneEventPerPeriod ==
    \A e \in 1..Len(donor_history) :
        \A m, n \in 1..Len(donor_history[e].val) :
            m # n => donor_history[e].val[m].date # donor_history[e].val[n].date

\* every recorded event is still recorded, unchanged, after the step
EventsKept ==
    \A k \in Keys(donor_history) :
        /\ Has(donor_history', k)
        /\ Range(Get(donor_history, k)) \subseteq Range(Get(donor_history', k))

\* C4: after any sequence of ingestion steps every donor has at most one giving
\* event per period, and no step overwrites or removes an event already recorded.
AppendOnlyOnePerPeriod == []OneEventPerPeriod /\ [][EventsKept]_vars

\* a statement repeating a donor number with two amounts was ingested, its period
\* was ingested twice more, and the donor still has the one event first recorded
WitnessAppendOnlyOnePerPeriod ==
    /\ month_index = 3
    /\ repeated
    /\ Len(ingested) = 1
    /\ Len(ingested[1].val.donors) = 2
    /\ ingested[1].val.donors[1].donor_number = "4521"
    /\ ingested[1].val.donors[2].donor_number = "4521"
    /\ ingested[1].val.donors[1].amount = 100
    /\ ingested[1].val.donors[2].amount = 250
    /\ successful_months = 3
    /\ Len(Get(donor_history, "4521")) = 1
    /\ Get(donor_history, "4521")[1].amount = 100

(***************************************************************************)
(* The analyzer run: analyze_giving_pattern on one donor of a history.     *)
(***************************************************************************)
\* the month k months after <<year, month>>
AddMonths(p, k) ==
    LET idx == p[1] * 12 + (p[2] - 1) + k
    IN << idx \div 12, (idx % 12) + 1 >>

GiftEvent(p, amt, nm, cty, st) ==
    [date |-> MonthKey(p[1], p[2]), amount |-> amt, name |-> nm, city |-> cty, state |-> st]

RECURSIVE PeriodAfter(_, _, _)
\* the period of the n-th gift of a donor whose first gift is at 'first'
PeriodAfter(first, intervals, n) ==
    IF n = 1 THEN first
    ELSE AddMonths(PeriodAfter(first, intervals, n - 1), intervals[n - 1])

Reverse(xs) == [n \in 1..Len(xs) |-> xs[Len(xs) + 1 - n]]

AnalyzerStart == <<2024, 11>>

AnalyzerIntervals == {1, 2, 3, 4, 5, 6, 10, 12}

AnalyzerAmounts == {100, 250}

\* the gifts of one donor, oldest first
GiftsOf(intervals, amounts) ==
    [n \in 1..Len(amounts) |->
        GiftEvent(PeriodAfter(AnalyzerStart, intervals, n), amounts[n], "JOHN A SMITH",
                  "SPRINGFIELD", "IL")]

\* the intervals and amounts a donor of n gifts is drawn from
IntervalsFor(n) == IF n <= MaxGifts THEN AnalyzerIntervals ELSE {1, 2}

AmountsFor(n) == IF n <= MaxGifts THEN AnalyzerAmounts ELSE {100}

\* the histories handed to the analyzer: no entry for the donor, or the donor's gifts
\* stored newest first (as load_data's loop stores them) or oldest first
IsAnalyzerHistory(h) ==
    \/ h = << >>
    \/ \E n \in 0..MaxLongGifts :
         \E ivs \in [1..(n - 1) -> IntervalsFor(n)], amts \in [1..n -> AmountsFor(n)] :
            \/ h = << [key |-> "4521", val |-> GiftsOf(ivs, amts)] >>
            \/ h = << [key |-> "4521", val |-> Reverse(GiftsOf(ivs, amts))] >>

InitAnalyze ==
    /\ pc = "call"
    /\ IsAnalyzerHistory(donor_history)
    /\ donor_id = "4521"
    /\ pattern = NoPattern
    /\ successful_months = 0
    /\ month_index = 0
    /\ ingested = << >>
    /\ repeated = FALSE
    /\ current_month_donors = << >>
    /\ now = <<0, 0>>
    /\ new_donors = << >>
    /\ changed_donors = << >>
    /\ missed_donors = << >>
    /\ normal_donors = << >>
    /\ ParserIdle
    /\ SessionIdle

\* one call of analyze_giving_pattern(donor_id, donor_history)
Analyze ==
    /\ pc = "call"
    /\ pc' = "returned"
    /\ pattern' = AnalyzePattern(donor_id, donor_history)
    /\ donor_history' = AnalyzeSorts(donor_history, donor_id)
    /\ UNCHANGED <<successful_months, month_index, ingested, repeated, donor_id,
                   current_month_donors, now, new_donors, changed_donors,
                   missed_donors, normal_donors>>
    /\ UNCHANGED <<parserVars, sessionVars>>

NextAnalyze == Analyze

SpecAnalyze == InitAnalyze /\ [][NextAnalyze]_vars

(***************************************************************************)
(* Claims about the Pattern Analyzer, checked under SpecAnalyze.           *)
(***************************************************************************)
\* the gifts of the analyzed donor (none when the donor is not in the history)
Analyzed == IF Has(donor_history, donor_id) THEN Get(donor_history, donor_id) ELSE << >>

Max(S) == CHOOSE x \in S : \A y \in S : y <= x

\* a date as a count of months
MonthNumber(date) == DateYear(date) * 12 + DateMonth(date)

GiftDates(g) == {g[n].date : n \in 1..Len(g)}

\* the dates of g after date a
LaterDates(g, a) == {b \in GiftDates(g) : MonthNumber(b) > MonthNumber(a)}

\* the months from date a to the next date of g
GapAfter(g, a) == Max({0 - MonthNumber(b) : b \in LaterDates(g, a)}) * (0 - 1) - MonthNumber(a)

\* how many intervals of g are k months long
GapCount(g, k) ==
    Cardinality({a \in GiftDates(g) : LaterDates(g, a) # {} /\ GapAfter(g, a) = k})

GapValues(g) == {GapAfter(g, a) : a \in {b \in GiftDates(g) : LaterDates(g, b) # {}}}

\* occurrences of the modal interval
ModalCount(g) == Max({GapCount(g, k) : k \in GapValues(g)})

\* how many gifts of g have amount a
AmountCount(g, a) == Cardinality({n \in 1..Len(g) : g[n].amount = a})

\* the earliest date at which g has a gift of amount a, as a count of months
FirstSeen(g, a) == 0 - Max({0 - MonthNumber(g[n].date) : n \in {m \in 1..Len(g) : g[m].amount = a}})

\* C8 as claimed: with 2 or more events the typical amount is the most frequent
\* amount, among tied amounts the one met first in period order, and the mean of
\* the amounts when no amount is repeated.
TypicalAmountAsClaimed ==
    (pc = "returned" /\ Len(Analyzed) >= 2) =>
        LET g == Analyzed
            amts == {g[n].amount : n \in 1..Len(g)}
            top == Max({AmountCount(g, a) : a \in amts})
            tied == {a \in amts : AmountCount(g, a) = top}
        IN IF top = 1
           THEN pattern.typical_amount * Len(g) = Sum([n \in 1..Len(g) |-> g[n].amount])
           ELSE /\ pattern.typical_amount \in tied
                /\ \A a \in tied : FirstSeen(g, pattern.typical_amount) <= FirstSeen(g, a)

\* the label the table gives for a modal interval of k months
TableLabel(k) ==
    CASE k = 1 -> "Monthly" [] k = 2 -> "Bi-Monthly" [] k = 3 -> "Quarterly"
      [] k = 4 -> "Every 4 Months" [] k = 5 -> "Every 5 Months" [] k = 6 -> "Semi-Annual"
      [] k = 10 -> "Every 10 Months" [] k = 12 -> "Annual" [] OTHER -> "?"

\* the confidence for c occurrences of the modal interval among n gifts
ClaimedConfidence(c, n) ==
    IF 5 * c >= 4 * (n - 1) /\ n >= 4 THEN "High"
    ELSE IF 5 * c >= 3 * (n - 1) /\ n >= 3 THEN "Medium"
    ELSE "Low"

\* C9: with n >= 2 events and consistency = (occurrences of the modal interval) / (n - 1),
\* confidence is High when consistency >= 0.8 and n >= 4, else Medium when
\* consistency >= 0.6 and n >= 3, else Low; the label is "Variable" exactly when
\* confidence is Low and otherwise the table label of the modal interval.
ConfidenceAndLabel ==
    (pc = "returned" /\ Len(Analyzed) >= 2) =>
        LET g == Analyzed
            conf == ClaimedConfidence(ModalCount(g), Len(g))
        IN /\ pattern.confidence = conf
           /\ (pattern.frequency = "Variable") <=> (conf = "Low")
           /\ conf # "Low" =>
                \E k \in GapValues(g) :
                    /\ GapCount(g, k) = ModalCount(g)
                    /\ pattern.frequency = TableLabel(k)

\* six gifts, four of the five intervals alike: consistency is exactly 0.8 and confidence High
WitnessConfidenceAndLabel ==
    /\ pc = "returned"
    /\ Len(Analyzed) = 6
    /\ ModalCount(Analyzed) = 4
    /\ pattern.confidence = "High"
    /\ pattern.frequency = "Bi-Monthly"

\* C10: a donor with fewer than 2 events (absent, or 1 event) analyzes to
\* ("One-Time", "Low", 0, 0), and no donor with 2 or more events at distinct
\* periods gets the label "One-Time".
OneTimeDefault ==
    pc = "returned" =>
        /\ Len(Analyzed) < 2 => pattern = Pattern("One-Time", "Low", 0, 0, 1)
        /\ Len(Analyzed) >= 2 => pattern.frequency # "One-Time"

\* a donor with exactly one event of 250 was analyzed
WitnessOneTimeDefault ==
    /\ pc = "returned"
    /\ Len(Analyzed) = 1
    /\ Analyzed[1].amount = 250
    /\ pattern.frequency = "One-Time"
    /\ pattern.typical_amount = 0

(***************************************************************************)
(* The classification run: classify_donors_smart on a history as load_data *)
(* leaves it (each donor's events newest first) and a current-period list. *)
(***************************************************************************)
ClassifyPeriods == << <<2025, 10>>, <<2025, 11>>, <<2025, 12>>, <<2026, 1>>, <<2026, 2>> >>

\* what datetime.now() may read, as <<year, month>>
Nows == { <<2026, 3>>, <<2026, 5>> }

\* the gifts donor d of the history may have given in one month
GiftKinds(d) ==
    IF d = "4521"
    THEN { [amount |-> 100, name |-> "JOHN A SMITH", city |-> "SPRINGFIELD", state |-> "IL"],
           [amount |-> 0, name |-> "J SMITH", city |-> "", state |-> ""] }
    ELSE { [amount |-> 100, name |-> "GRACE CHURCH", city |-> "DAYTON", state |-> "OH"] }

CurrentDonors ==
    { DonorRecord("4521", 0, "JOHN SMITH", "", ""),
      DonorRecord("4521", 150, "JOHN SMITH", "", ""),
      DonorRecord("4521", 300, "JOHN SMITH", "", ""),
      DonorRecord("77", 100, "GRACE CHURCH", "DAYTON", "OH") }

RECURSIVE GiftsNewestFirst(_, _)
\* the events of a donor who gave gave[n] in ClassifyPeriods[n] (None: no gift), months 1..n, newest first
GiftsNewestFirst(gave, n) ==
    IF n = 0 THEN << >>
    ELSE IF gave[n] = NoGift THEN GiftsNewestFirst(gave, n - 1)
         ELSE << GiftEvent(ClassifyPeriods[n], gave[n].amount, gave[n].name, gave[n].city,
                           gave[n].state) >> \o GiftsNewestFirst(gave, n - 1)

GaveChoices(d) == [1..Len(ClassifyPeriods) -> GiftKinds(d) \cup {NoGift}]

GiftCount(gave) == Cardinality({n \in 1..Len(ClassifyPeriods) : gave[n] # NoGift})

\* the donor_history dict of donors "4521" and "77"; a donor without gifts has no entry
HistoryOf(gave1, gave2) ==
    (IF GiftCount(gave1) = 0 THEN << >>
     ELSE << [key |-> "4521", val |-> GiftsNewestFirst(gave1, Len(ClassifyPeriods))] >>)
    \o
    (IF GiftCount(gave2) = 0 THEN << >>
     ELSE << [key |-> "77", val |-> GiftsNewestFirst(gave2, Len(ClassifyPeriods))] >>)

InitClassify ==
    /\ pc = "call"
    /\ \E gave1 \in GaveChoices("4521"), gave2 \in GaveChoices("77") :
          /\ GiftCount(gave1) + GiftCount(gave2) <= MaxHistoryEvents
          /\ donor_history = HistoryOf(gave1, gave2)
    /\ current_month_donors \in SeqsUpTo(CurrentDonors, MaxCurrentLen)
    /\ now \in Nows
    /\ donor_id = None
    /\ pattern = NoPattern
    /\ successful_months = 0
    /\ month_index = 0
    /\ ingested = << >>
    /\ repeated = FALSE
    /\ new_donors = << >>
    /\ changed_donors = << >>
    /\ missed_donors = << >>
    /\ normal_donors = << >>
    /\ ParserIdle
    /\ SessionIdle

\* one call of classify_donors_smart(current_month_donors, donor_history)
Classify ==
    /\ pc = "call"
    /\ pc' = "returned"
    /\ \E lists \in {ClassifyDonorsSmart(current_month_donors, donor_history, now)} :
          /\ new_donors' = lists.new
          /\ changed_donors' = lists.changed
          /\ missed_donors' = lists.missed
          /\ normal_donors' = lists.normal
    /\ donor_history' = AnalyzeAll(donor_history)
    /\ UNCHANGED <<successful_months, month_index, ingested, repeated, donor_id, pattern,
                   current_month_donors, now>>
    /\ UNCHANGED <<parserVars, sessionVars>>

NextClassify == Classify

SpecClassify == InitClassify /\ [][NextClassify]_vars

(***************************************************************************)
(* Claims about the Donor Classifier, checked under SpecClassify.          *)
(***************************************************************************)
\* how many entries of a list carry donor number d
Occurrences(list, d) == Cardinality({n \in 1..Len(list) : list[n].donor_number = d})

InList(list, d) == Occurrences(list, d) > 0

CurrentNumbers == {current_month_donors[n].donor_number : n \in 1..Len(current_month_donors)}

AllNumbers == Keys(donor_history) \cup CurrentNumbers

\* in how many of the four lists d occurs
ListsHolding(d) ==
    (IF InList(new_donors, d) THEN 1 ELSE 0) + (IF InList(changed_donors, d) THEN 1 ELSE 0)
    + (IF InList(missed_donors, d) THEN 1 ELSE 0) + (IF InList(normal_donors, d) THEN 1 ELSE 0)

\* C1 as claimed: every donor number of the current-period list or of the history
\* is in exactly one of the four lists, exactly once.
ExactlyOneCategory ==
    pc = "returned" =>
        \A d \in AllNumbers :
            Occurrences(new_donors, d) + Occurrences(changed_donors, d)
                + Occurrences(missed_donors, d) + Occurrences(normal_donors, d) = 1

\* C1 as amended: every donor number is in at most one of the four lists; a number
\* of the current-period list is in exactly one of New, Changed, Normal (once when
\* it is in the history, otherwise once per occurrence in the current-period list,
\* in New); a number only in the history is once in Missed or in no list.
AtMostOneCategory ==
    pc = "returned" =>
        \A d \in AllNumbers :
            /\ ListsHolding(d) <= 1
            /\ d \in CurrentNumbers =>
                 /\ ~InList(missed_donors, d)
                 /\ ListsHolding(d) = 1
                 /\ Has(donor_history, d) =>
                      Occurrences(new_donors, d) + Occurrences(changed_donors, d)
                          + Occurrences(normal_donors, d) = 1
                 /\ ~Has(donor_history, d) =>
                      Occurrences(new_donors, d) = Occurrences(current_month_donors, d)
            /\ d \notin CurrentNumbers =>
                 /\ ~InList(new_donors, d)
                 /\ ~InList(changed_donors, d)
                 /\ ~InList(normal_donors, d)
                 /\ Occurrences(missed_donors, d) <= 1

\* "77" is twice in the current-period list and not in the history: twice in New;
\* "4521" is only in the history and not overdue: in no list
WitnessAtMostOneCategory ==
    /\ pc = "returned"
    /\ Occurrences(current_month_donors, "77") = 2
    /\ Occurrences(new_donors, "77") = 2
    /\ Has(donor_history, "4521")
    /\ ~Has(donor_history, "77")
    /\ ListsHolding("4521") = 0

\* the current-period amount of d: the record the lookup dict keeps (the last one of that number)
CurrentAmount(d) == Get(CurrentMonthDict(current_month_donors), d).amount

\* abs(changePercent) > 50, changePercent = (current - typical) / typical * 100, 0 when typical is 0
SignificantChange(current, typical) ==
    typical # 0 /\ Abs((current - typical) * 100) > 50 * typical

\* C5 as claimed: a donor with history who gave in the current period is New if the
\* label is "One-Time" or the confidence is "Low", otherwise Changed if
\* abs(changePercent) > 50, otherwise Normal.
CategoryAsClaimed ==
    pc = "returned" =>
        \A d \in Keys(donor_history) \cap CurrentNumbers :
            LET pat == AnalyzePattern(d, donor_history)
                isNew == pat.frequency = "One-Time" \/ pat.confidence = "Low"
                major == SignificantChange(CurrentAmount(d), pat.typical_amount)
            IN /\ InList(new_donors, d) <=> isNew
               /\ InList(changed_donors, d) <=> (~isNew /\ major)
               /\ InList(normal_donors, d) <=> (~isNew /\ ~major)

\* C5 as amended: a donor with history who gave in the current period is New if the
\* history holds exactly one event of the donor, otherwise Changed if
\* abs(changePercent) > 50, otherwise Normal, whatever the confidence.
CategoryByGiftCount ==
    pc = "returned" =>
        \A d \in Keys(donor_history) \cap CurrentNumbers :
            LET pat == AnalyzePattern(d, donor_history)
                isNew == Len(Get(donor_history, d)) = 1
                major == SignificantChange(CurrentAmount(d), pat.typical_amount)
            IN /\ InList(new_donors, d) <=> isNew
               /\ InList(changed_donors, d) <=> (~isNew /\ major)
               /\ InList(normal_donors, d) <=> (~isNew /\ ~major)

\* a donor with two events, of Low confidence, gave 300 against a typical 100 and is Changed
WitnessCategoryByGiftCount ==
    /\ pc = "returned"
    /\ \E n \in 1..Len(changed_donors) :
          /\ changed_donors[n].confidence = "Low"
          /\ changed_donors[n].amount = 300
          /\ changed_donors[n].typical_amount = 100
          /\ Len(Get(donor_history, changed_donors[n].donor_number)) = 2

\* the month count of the latest event of g
LatestMonth(g) == Max({MonthNumber(g[n].date) : n \in 1..Len(g)})

\* g holds 4 events in 4 consecutive months
FourMonthly(g) ==
    /\ Len(g) = 4
    /\ {MonthNumber(g[n].date) : n \in 1..Len(g)} = (LatestMonth(g) - 3)..LatestMonth(g)

\* C6: a donor of the history who did not give in the current period is in Missed
\* exactly when the label is not "One-Time", the confidence is High or Medium, and
\* the months from the latest event to now are at least the average interval; a
\* donor with 4 consecutive monthly events, the last 3 months ago, is Missed.
MissedWhenOverdue ==
    pc = "returned" =>
        \A d \in Keys(donor_history) \ CurrentNumbers :
            LET pat == AnalyzePattern(d, donor_history)
                g == Get(donor_history, d)
                elapsed == (now[1] * 12 + now[2]) - LatestMonth(g)
            IN /\ InList(missed_donors, d) <=>
                    /\ pat.frequency # "One-Time"
                    /\ pat.confidence \in {"High", "Medium"}
                    /\ elapsed * pat.avg_interval.len >= pat.avg_interval.sum
               /\ (FourMonthly(g) /\ elapsed = 3) => InList(missed_donors, d)

\* a donor with 4 consecutive monthly events whose last event is 3 months ago is in Missed
WitnessMissedWhenOverdue ==
    /\ pc = "returned"
    /\ Has(donor_history, "4521")
    /\ FourMonthly(Get(donor_history, "4521"))
    /\ (now[1] * 12 + now[2]) - LatestMonth(Get(donor_history, "4521")) = 3
    /\ InList(missed_donors, "4521")

\* the latest event of g
LatestEvent(g) == g[CHOOSE n \in 1..Len(g) : MonthNumber(g[n].date) = LatestMonth(g)]

\* C7 as claimed: every Missed entry carries the name, city and state of the donor's
\* latest event and an expected amount equal to the typical amount.
MissedCarriesLatest ==
    pc = "returned" =>
        \A n \in 1..Len(missed_donors) :
            LET m == missed_donors[n]
                latest == LatestEvent(Get(donor_history, m.donor_number))
            IN /\ m.name = latest.name
               /\ m.city = latest.city
               /\ m.state = latest.state
               /\ m.expected_amount = AnalyzePattern(m.donor_number, donor_history).typical_amount

(***************************************************************************)
(* Statement Parser: parse_financial_data_multiline and its callers.       *)
(*                                                                         *)
(* text_data is kept as the list text_data.split('\n') and indexed from 0  *)
(* as in the code.  A line is its text after the leading whitespace, the   *)
(* width of that whitespace, and the outcomes on that text of the          *)
(* substring tests and regular expressions the parser applies to a line.   *)
(* financial_totals is left out: no donor record depends on it.            *)
(***************************************************************************)
\* a line on which every test of the parser fails
PlainLine(text, indent, length) ==
    [text |-> text, indent |-> indent, length |-> length,
     login |-> FALSE, start |-> FALSE, end |-> FALSE,
     donor |-> FALSE, donor_num |-> "", donor_name |-> "", clean_name |-> "", amount |-> 0,
     shape |-> FALSE, city |-> "", state |-> ""]

\* a line donor_match accepts: groups 1..3 and what clean_donor_name makes of group 2
DonorLine(text, indent, length, num, nm, clean, amt) ==
    [PlainLine(text, indent, length) EXCEPT
        !.donor = TRUE, !.donor_num = num, !.donor_name = nm, !.clean_name = clean,
        !.amount = amt]

LoginLine == [PlainLine("<title>Missionary Login</title>", 0, 31) EXCEPT !.login = TRUE]

StartLine ==
    [PlainLine("YOUR DONATIONS FOR THIS MONTH", 0, 29) EXCEPT !.start = TRUE, !.shape = TRUE]

EndLine ==
    [PlainLine("YOUR DEDUCTIONS FOR THIS MONTH", 0, 30) EXCEPT !.end = TRUE, !.shape = TRUE]

\* the end marker as a centred heading
PaddedEndLine == [EndLine EXCEPT !.indent = 32]

SmithLine == DonorLine("4521 JOHN A SMITH $100.00", 0, 25, "4521", "JOHN A SMITH", "JOHN A SMITH", 100)

ChurchLine == DonorLine("77 GRACE CHURCH $100.00", 2, 23, "77", "GRACE CHURCH", "GRACE CHURCH", 100)

\* a donor line in the second column, its name ending like an address
PaddedChurchLine ==
    [DonorLine("77 GRACE CHURCH OH 45402 $100.00", 32, 32, "77", "GRACE CHURCH OH 45402",
               "GRACE CHURCH OH 45402", 100) EXCEPT !.shape = TRUE]

AddressLine ==
    [PlainLine("SPRINGFIELD IL 62704", 32, 20) EXCEPT
        !.shape = TRUE, !.city = "SPRINGFIELD", !.state = "IL"]

\* the same text at the left margin
UnpaddedAddressLine == [AddressLine EXCEPT !.indent = 0]

StatementLines ==
    {LoginLine, StartLine, EndLine, PaddedEndLine, SmithLine, ChurchLine, PaddedChurchLine,
     AddressLine, UnpaddedAddressLine}

\* lines[i]
LineAt(lines, n) == lines[n + 1]

\* "Missionary Login" in text_data, tested on the first line only
MutLoginPage(lines) == Len(lines) > 0 /\ lines[1].login

\* "Missionary Login" in text_data
LoginPage(lines) == \E n \in 1..Len(lines) : lines[n].login

\* "YOUR DONATIONS FOR THIS MONTH" in line
StartMarker(line) == line.start

\* "YOUR DEDUCTIONS" in line
EndMarker(line) == line.end

\* line.strip(), as a truth value
NonBlank(line) == line.length > 0

\* donor_match = re.match(r'^\s*(\d+)\s+(.*?)\s+\$([\d,]+\.\d+)$', line)
DonorMatch(line) == line.donor

\* is_address_line(line): long enough, padded by 30 or more, and one of the four patterns after the padding
IsAddressLine(line) == ~(line.length < 5) /\ line.indent >= 30 /\ line.shape

\* extract_city_state_from_address(address_line)
ExtractCityState(line) == <<line.city, line.state>>

\* the look-ahead test: i + 1 < len(lines) and self.is_address_line(lines[i + 1])
AddressFollows(lines, n) == n + 1 < Len(lines) /\ IsAddressLine(LineAt(lines, n + 1))

\* the index after a donor line, the address line not skipped
MutAfterDonorLine(n, address_found) == n + 1

\* the index after a donor line: 'i += 1' for a found address line, then the loop's 'i += 1'
AfterDonorLine(n, address_found) == IF address_found THEN n + 1 + 1 ELSE n + 1

\* the dict appended to donors
ParsedDonor(line, location) ==
    [donor_number |-> line.donor_num, name |-> line.clean_name,
     original_name |-> line.donor_name, amount |-> line.amount,
     city |-> location[1], state |-> location[2]]

(***************************************************************************)
(* The parse of one period's text by fetch_monthly_data, line by line, and *)
(* the iteration of load_data's month loop that receives the result.       *)
(***************************************************************************)
\* the period being loaded, as <<year_val, month_val>>
ParsePeriod == <<2026, 2>>

\* the donor_history the earlier iterations of the loop have built
ParseHistories ==
    { << >>,
      << [key |-> "4521",
          val |-> << [date |-> MonthKey(2026, 1), amount |-> 100, name |-> "JOHN A SMITH",
                      city |-> "", state |-> ""] >>] >> }

InitParse ==
    /\ pc = "fetch"
    /\ text_data \in SeqsUpTo(StatementLines, MaxLines)
    /\ donor_history \in ParseHistories
    /\ successful_months = Len(donor_history)
    /\ month_index = Len(donor_history)
    /\ line_index = 0
    /\ in_donor_section = FALSE
    /\ parsed_donors = << >>
    /\ fetched_month_data = NoData
    /\ parse_calls = 0
    /\ record_lines = << >>
    /\ address_lines = {}
    /\ ingested = << >>
    /\ repeated = FALSE
    /\ donor_id = None
    /\ pattern = NoPattern
    /\ current_month_donors = << >>
    /\ now = <<0, 0>>
    /\ new_donors = << >>
    /\ changed_donors = << >>
    /\ missed_donors = << >>
    /\ normal_donors = << >>
    /\ SessionIdle

\* fetch_monthly_data: 'if not text_data: return None', the parser is not called
FetchNothing ==
    /\ pc = "fetch"
    /\ Len(text_data) = 0
    /\ pc' = "fetched"
    /\ fetched_month_data' = NoData
    /\ UNCHANGED <<donor_history, successful_months, month_index, line_index,
                   in_donor_section, parsed_donors, parse_calls, record_lines,
                   address_lines, text_data>>
    /\ UNCHANGED <<analysisVars, sessionVars>>

\* the parser is called and returns None for a login page; fetch_monthly_data returns None
ParseLoginPage ==
    /\ pc = "fetch"
    /\ Len(text_data) > 0
    /\ LoginPage(text_data)
    /\ parse_calls' = parse_calls + 1
    /\ pc' = "fetched"
    /\ fetched_month_data' = NoData
    /\ UNCHANGED <<donor_history, successful_months, month_index, line_index,
                   in_donor_section, parsed_donors, record_lines, address_lines, text_data>>
    /\ UNCHANGED <<analysisVars, sessionVars>>

\* the parser is called and sets up its scan
ParseBegin ==
    /\ pc = "fetch"
    /\ Len(text_data) > 0
    /\ ~LoginPage(text_data)
    /\ parse_calls' = parse_calls + 1
    /\ pc' = "scan"
    /\ parsed_donors' = << >>
    /\ in_donor_section' = FALSE
    /\ line_index' = 0
    /\ UNCHANGED <<donor_history, successful_months, month_index, fetched_month_data,
                   record_lines, address_lines, text_data>>
    /\ UNCHANGED <<analysisVars, sessionVars>>

\* one iteration of 'while i < len(lines)' on a start marker line
ScanStartMarker ==
    /\ pc = "scan"
    /\ line_index < Len(text_data)
    /\ StartMarker(LineAt(text_data, line_index))
    /\ in_donor_section' = TRUE
    /\ line_index' = line_index + 1
    /\ UNCHANGED <<pc, donor_history, successful_months, month_index, parsed_donors,
                   fetched_month_data, parse_calls, record_lines, address_lines, text_data>>
    /\ UNCHANGED <<analysisVars, sessionVars>>

\* one iteration on an end marker line met inside the donor section
ScanEndMarker ==
    /\ pc = "scan"
    /\ line_index < Len(text_data)
    /\ ~StartMarker(LineAt(text_data, line_index))
    /\ EndMarker(LineAt(text_data, line_index)) /\ in_donor_section
    /\ in_donor_section' = FALSE
    /\ line_index' = line_index + 1
    /\ UNCHANGED <<pc, donor_history, successful_months, month_index, parsed_donors,
                   fetched_month_data, parse_calls, record_lines, address_lines, text_data>>
    /\ UNCHANGED <<analysisVars, sessionVars>>

\* one iteration on a donor line inside the donor section, with its look-ahead
ScanDonorLine ==
    /\ pc = "scan"
    /\ line_index < Len(text_data)
    /\ ~StartMarker(LineAt(text_data, line_index))
    /\ ~(EndMarker(LineAt(text_data, line_index)) /\ in_donor_section)
    /\ in_donor_section /\ NonBlank(LineAt(text_data, line_index))
    /\ DonorMatch(LineAt(text_data, line_index))
    /\ LET address_found == AddressFollows(text_data, line_index)
           location == IF address_found
                       THEN ExtractCityState(LineAt(text_data, line_index + 1))
                       ELSE <<"", "">>
       IN /\ parsed_donors' = Append(parsed_donors,
                                     ParsedDonor(LineAt(text_data, line_index), location))
          /\ line_index' = AfterDonorLine(line_index, address_found)
          /\ record_lines' = Append(record_lines, line_index)
          /\ address_lines' = IF address_found THEN address_lines \cup {line_index + 1}
                              ELSE address_lines
    /\ UNCHANGED <<pc, donor_history, successful_months, month_index, in_donor_section,
                   fetched_month_data, parse_calls, text_data>>
    /\ UNCHANGED <<analysisVars, sessionVars>>

\* one iteration on any other line
ScanOtherLine ==
    /\ pc = "scan"
    /\ line_index < Len(text_data)
    /\ ~StartMarker(LineAt(text_data, line_index))
    /\ ~(EndMarker(LineAt(text_data, line_index)) /\ in_donor_section)
    /\ ~(/\ in_donor_section /\ NonBlank(LineAt(text_data, line_index))
         /\ DonorMatch(LineAt(text_data, line_index)))
    /\ line_index' = line_index + 1
    /\ UNCHANGED <<pc, donor_history, successful_months, month_index, in_donor_section,
                   parsed_donors, fetched_month_data, parse_calls, record_lines,
                   address_lines, text_data>>
    /\ UNCHANGED <<analysisVars, sessionVars>>

\* the loop ends; the parser returns donors and fetch_monthly_data wraps them in totals
ParseReturn ==
    /\ pc = "scan"
    /\ ~(line_index < Len(text_data))
    /\ pc' = "fetched"
    /\ fetched_month_data' = [ok |-> TRUE, donors |-> parsed_donors]
    /\ UNCHANGED <<donor_history, successful_months, month_index, line_index,
                   in_donor_section, parsed_donors, parse_calls, record_lines,
                   address_lines, text_data>>
    /\ UNCHANGED <<analysisVars, sessionVars>>

\* the rest of the loop iteration of load_data: 'if month_data and month_data.get('donors')'
IngestStatement ==
    /\ pc = "fetched"
    /\ pc' = "done"
    /\ donor_history' = Ingest(donor_history, ParsePeriod[1], ParsePeriod[2], fetched_month_data)
    /\ successful_months' = IF HasDonors(fetched_month_data)
                            THEN successful_months + 1 ELSE successful_months
    /\ month_index' = month_index + 1
    /\ UNCHANGED <<line_index, in_donor_section, parsed_donors, fetched_month_data,
                   parse_calls, record_lines, address_lines, text_data>>
    /\ UNCHANGED <<analysisVars, sessionVars>>

NextParse ==
    \/ FetchNothing
    \/ ParseLoginPage
    \/ ParseBegin
    \/ ScanStartMarker
    \/ ScanEndMarker
    \/ ScanDonorLine
    \/ ScanOtherLine
    \/ ParseReturn
    \/ IngestStatement

SpecParse == InitParse /\ [][NextParse]_vars

(***************************************************************************)
(* Claims about the Statement Parser, checked under SpecParse.             *)
(***************************************************************************)
\* the raw text carries the login-page signature, on whichever line
CarriesLoginSignature == \E n \in 1..Len(text_data) : text_data[n].text = LoginLine.text

\* the raw text also holds a donor line inside a donor section
CarriesDonorSection ==
    \E n \in 1..Len(text_data), m \in 1..Len(text_data) :
        n < m /\ text_data[n].text = StartLine.text /\ text_data[m].donor

\* at every state: for a text with the login-page signature the parser is called at
\* most once, no donor record is ever built, and what the month loop receives is the
\* failure value
LoginPageFails ==
    CarriesLoginSignature =>
        /\ parse_calls <= 1
        /\ parsed_donors = << >>
        /\ pc \in {"fetched", "done"} => parse_calls = 1 /\ fetched_month_data = NoData

\* at every step: for such a text the donor history and the count of loaded months
\* never change
LoginPageStep ==
    CarriesLoginSignature =>
        donor_history' = donor_history /\ successful_months' = successful_months

\* C11: when the raw text carries the login-page signature, the parse returns the failure
\* value whatever statement content is also present, it is not retried, and the ingestion
\* step for the period leaves the donor history unchanged and does not count the month
AuthChallengeNotIngested == []LoginPageFails /\ [][LoginPageStep]_vars

\* the month loop has finished its iteration for a login page that also held a donor
\* section, with a history built by earlier iterations
WitnessAuthChallengeNotIngested ==
    /\ pc = "done"
    /\ CarriesLoginSignature
    /\ CarriesDonorSection
    /\ ~text_data[1].login
    /\ donor_history # << >>
    /\ month_index = Len(donor_history) + 1

\* line n of the text is a start marker line
StartMarkerAt(n) == LineAt(text_data, n).text = StartLine.text

\* line n of the text is an end marker line
EndMarkerAt(n) == LineAt(text_data, n).text = EndLine.text

\* line n lies after a start marker line with no end marker line between the two
InsideSection(n) ==
    \E s \in 0..(n - 1) :
        /\ StartMarkerAt(s)
        /\ \A m \in (s + 1)..(n - 1) : ~EndMarkerAt(m)

\* every record came from a line that matches the donor-line pattern and lies inside the section
RecordsFromSection ==
    \A k \in 1..Len(record_lines) :
        /\ LineAt(text_data, record_lines[k]).donor
        /\ InsideSection(record_lines[k])

\* the iteration on an end marker line met outside the section leaves the flag as it was
FlagKeptOutside ==
    (/\ pc = "scan" /\ line_index < Len(text_data)
     /\ EndMarkerAt(line_index) /\ ~in_donor_section)
        => in_donor_section' = in_donor_section

\* C12: the parser emits a donor record only for a line that matches the donor-line pattern
\* and lies after a start marker line with no end marker line between that start marker and
\* the line, and an end marker seen while outside the section leaves the section flag unchanged
DonorSectionScan == []RecordsFromSection /\ [][FlagKeptOutside]_vars

\* the lines that produced a record
RecordLineSet == {record_lines[k] : k \in 1..Len(record_lines)}

\* line n is followed at once by a line that passes the address-line test
FollowedByAddress(n) == n + 1 < Len(text_data) /\ IsAddressLine(LineAt(text_data, n + 1))

\* C13: when the line immediately following an accepted donor line passes the address-line
\* test, its city and state are attached to that donor only and the parser advances past it,
\* so that the consumed line never yields a record of its own; a line that does not
\* immediately follow an accepted donor line is never consumed as an address, and a donor
\* with no such following line gets empty city and state
AddressAttachedToItsDonor ==
    /\ Len(parsed_donors) = Len(record_lines)
    /\ \A k \in 1..Len(record_lines) :
          IF FollowedByAddress(record_lines[k])
          THEN /\ record_lines[k] + 1 \in address_lines
               /\ parsed_donors[k].city = LineAt(text_data, record_lines[k] + 1).city
               /\ parsed_donors[k].state = LineAt(text_data, record_lines[k] + 1).state
          ELSE /\ record_lines[k] + 1 \notin address_lines
               /\ parsed_donors[k].city = ""
               /\ parsed_donors[k].state = ""
    /\ \A a \in address_lines :
          /\ a - 1 \in RecordLineSet
          /\ a \notin RecordLineSet
          /\ line_index > a

\* the parse has ended with a donor that took its city and state from the line after it,
\* and a later donor, with no address line after it, that kept both empty
WitnessAddressAttachedToItsDonor ==
    /\ pc = "done"
    /\ Len(parsed_donors) >= 2
    /\ \E k \in 1..Len(parsed_donors), j \in 1..Len(parsed_donors) :
          /\ k < j
          /\ parsed_donors[k].city = "SPRINGFIELD" /\ parsed_donors[k].state = "IL"
          /\ record_lines[k] + 1 \in address_lines
          /\ parsed_donors[j].city = "" /\ parsed_donors[j].state = ""
          /\ ~FollowedByAddress(record_lines[j])

(***************************************************************************)
(* The web session: login, load_data, dashboard and logout requests for    *)
(* one session id, served by concurrent threads.  A request runs in steps, *)
(* one per access to data_store or to the statement source; the steps of   *)
(* different requests interleave freely.  Every request carries the        *)
(* session id, as a client may send it at any time.  entries is the heap   *)
(* of the dicts ever stored under the id: a request that holds             *)
(* session_data keeps the dict it read even after the key is removed or    *)
(* set again.  list.sort and dict.update each take effect in one step.     *)
(***************************************************************************)
\* datetime.now() of the session runs, as <<year, month>>
SessionNow == <<2026, 3>>

\* what fetch_monthly_data gives a load_data request for a month
SessionMonthDatas ==
    { NoData,
      [ok |-> TRUE, donors |-> << DonorRecord("4521", 100, "JOHN A SMITH", "SPRINGFIELD", "IL") >>],
      [ok |-> TRUE, donors |-> << DonorRecord("77", 100, "GRACE CHURCH", "", "") >>] }

\* what fetch_monthly_data gives the dashboard for the report month
SessionCurrentDatas ==
    { NoData,
      [ok |-> TRUE, donors |-> << DonorRecord("4521", 300, "JOHN SMITH", "", "") >>] }

RECURSIVE MonthsBack(_, _)
\* month_date after n rounds of the inner loop 'for _ in range(i)'
MonthsBack(month_date, n) ==
    IF n = 0 THEN month_date
    ELSE MonthsBack(IF month_date[2] = 1 THEN <<month_date[1] - 1, 12>>
                    ELSE <<month_date[1], month_date[2] - 1>>, n - 1)

\* data_store[session_id] = {'data_loaded': False, 'donor_history': {}, ...}
NewEntry == [data_loaded |-> FALSE, donor_history |-> << >>]

RECURSIVE MergeFrom(_, _, _)
\* stored.update(local): the donors of local set one by one in the stored history
MergeFrom(stored, local, n) ==
    IF n > Len(local) THEN stored
    ELSE MergeFrom(Put(stored, local[n].key, local[n].val), local, n + 1)

\* the update of the entry taken as a merge of the request's history into the stored one
MutUpdatedEntry(entry, local_history) ==
    [entry EXCEPT !.donor_history = MergeFrom(entry.donor_history, local_history, 1),
                  !.data_loaded = TRUE]

\* entry.update({'donor_history': donor_history, 'data_loaded': True})
UpdatedEntry(entry, local_history) ==
    [entry EXCEPT !.donor_history = local_history, !.data_loaded = TRUE]

\* session_id in data_store
InDataStore == data_store # 0

\* the dashboard's test of its session_data, taken as always passed
MutShowsDashboard(entry) == TRUE

\* not the case that 'not session_data.get('data_loaded')'
ShowsDashboard(entry) == entry.data_loaded

InitSession ==
    /\ pc = "serving"
    /\ data_store = 0
    /\ entries = << >>
    /\ load_requests = [r \in LoadIds |-> IdleLoad]
    /\ dashboard_request = IdleDashboard
    /\ completed_loads = {}
    /\ now = SessionNow
    /\ current_month_donors = << >>
    /\ new_donors = << >>
    /\ changed_donors = << >>
    /\ missed_donors = << >>
    /\ normal_donors = << >>
    /\ donor_history = << >>
    /\ successful_months = 0
    /\ month_index = 0
    /\ ingested = << >>
    /\ repeated = FALSE
    /\ donor_id = None
    /\ pattern = NoPattern
    /\ ParserIdle

\* login, the portal accepting the credentials: a new entry is stored under the session id
Login ==
    /\ Len(entries) < MaxLogins
    /\ entries' = Append(entries, NewEntry)
    /\ data_store' = Len(entries) + 1
    /\ UNCHANGED <<load_requests, dashboard_request, completed_loads, current_month_donors,
                   new_donors, changed_donors, missed_donors, normal_donors>>
    /\ UNCHANGED <<pc, donor_history, successful_months, month_index, ingested, repeated,
                   donor_id, pattern, now, parserVars>>

\* logout: 'del data_store[session_id]' when the id is a key
Logout ==
    /\ InDataStore
    /\ data_store' = 0
    /\ UNCHANGED <<entries, load_requests, dashboard_request, completed_loads,
                   current_month_donors, new_donors, changed_donors, missed_donors,
                   normal_donors>>
    /\ UNCHANGED <<pc, donor_history, successful_months, month_index, ingested, repeated,
                   donor_id, pattern, now, parserVars>>

\* load_data arrives and passes 'if not session_id or session_id not in data_store'
LoadArrive(r) ==
    /\ load_requests[r].pc = "idle"
    /\ InDataStore
    /\ load_requests' = [load_requests EXCEPT ![r].pc = "credentials"]
    /\ UNCHANGED <<data_store, entries, dashboard_request, completed_loads,
                   current_month_donors, new_donors, changed_donors, missed_donors,
                   normal_donors>>
    /\ UNCHANGED <<pc, donor_history, successful_months, month_index, ingested, repeated,
                   donor_id, pattern, now, parserVars>>

\* load_data reads data_store[session_id]['credentials'] and sets up its local variables;
\* with the key gone the read raises outside the try block and the request ends
LoadCredentials(r) ==
    /\ load_requests[r].pc = "credentials"
    /\ load_requests' =
          [load_requests EXCEPT ![r] =
              IF InDataStore
              THEN [pc |-> "loop", donor_history |-> << >>, month_index |-> 0,
                    successful_months |-> 0]
              ELSE [IdleLoad EXCEPT !.pc = "failed"]]
    /\ UNCHANGED <<data_store, entries, dashboard_request, completed_loads,
                   current_month_donors, new_donors, changed_donors, missed_donors,
                   normal_donors>>
    /\ UNCHANGED <<pc, donor_history, successful_months, month_index, ingested, repeated,
                   donor_id, pattern, now, parserVars>>

\* one iteration of the month loop of a load_data request, on its local donor_history
LoadMonth(r) ==
    /\ load_requests[r].pc = "loop"
    /\ load_requests[r].month_index < SessionMonths
    /\ \E fetched \in SessionMonthDatas :
          LET month_date == MonthsBack(now, load_requests[r].month_index)
          IN load_requests' =
                [load_requests EXCEPT
                    ![r].donor_history =
                        Ingest(load_requests[r].donor_history, month_date[1], month_date[2],
                               fetched),
                    ![r].successful_months =
                        IF HasDonors(fetched) THEN load_requests[r].successful_months + 1
                        ELSE load_requests[r].successful_months,
                    ![r].month_index = load_requests[r].month_index + 1]
    /\ UNCHANGED <<data_store, entries, dashboard_request, completed_loads,
                   current_month_donors, new_donors, changed_donors, missed_donors,
                   normal_donors>>
    /\ UNCHANGED <<pc, donor_history, successful_months, month_index, ingested, repeated,
                   donor_id, pattern, now, parserVars>>

\* data_store[session_id].update({...}) after the loop, the id still a key
LoadUpdate(r) ==
    /\ load_requests[r].pc = "loop"
    /\ load_requests[r].month_index = SessionMonths
    /\ InDataStore
    /\ entries' = [entries EXCEPT
                      ![data_store] = UpdatedEntry(entries[data_store],
                                                   load_requests[r].donor_history)]
    /\ completed_loads' = completed_loads \cup {load_requests[r].donor_history}
    /\ load_requests' = [load_requests EXCEPT ![r] = [IdleLoad EXCEPT !.pc = "complete"]]
    /\ UNCHANGED <<data_store, dashboard_request, current_month_donors,
                   new_donors, changed_donors, missed_donors, normal_donors>>
    /\ UNCHANGED <<pc, donor_history, successful_months, month_index, ingested, repeated,
                   donor_id, pattern, now, parserVars>>

\* data_store[session_id] raises KeyError after the loop: the except block returns an error
LoadUpdateFails(r) ==
    /\ load_requests[r].pc = "loop"
    /\ load_requests[r].month_index = SessionMonths
    /\ ~InDataStore
    /\ load_requests' = [load_requests EXCEPT ![r] = [IdleLoad EXCEPT !.pc = "error"]]
    /\ UNCHANGED <<data_store, entries, dashboard_request, completed_loads,
                   current_month_donors, new_donors, changed_donors, missed_donors,
                   normal_donors>>
    /\ UNCHANGED <<pc, donor_history, successful_months, month_index, ingested, repeated,
                   donor_id, pattern, now, parserVars>>

\* dashboard arrives, the id is a key, and session_data passes or fails the data_loaded test
DashboardArrive ==
    /\ dashboard_request.pc # "fetch"
    /\ InDataStore
    /\ dashboard_request' =
          IF ShowsDashboard(entries[data_store])
          THEN [pc |-> "fetch", session_data |-> data_store]
          ELSE [pc |-> "loading", session_data |-> data_store]
    /\ UNCHANGED <<data_store, entries, load_requests, completed_loads,
                   current_month_donors, new_donors, changed_donors, missed_donors,
                   normal_donors>>
    /\ UNCHANGED <<pc, donor_history, successful_months, month_index, ingested, repeated,
                   donor_id, pattern, now, parserVars>>

\* dashboard: fetch_monthly_data returns None for the report month, the request ends with 500
DashboardFetchFails ==
    /\ dashboard_request.pc = "fetch"
    /\ dashboard_request' = [dashboard_request EXCEPT !.pc = "failed"]
    /\ UNCHANGED <<data_store, entries, load_requests, completed_loads,
                   current_month_donors, new_donors, changed_donors, missed_donors,
                   normal_donors>>
    /\ UNCHANGED <<pc, donor_history, successful_months, month_index, ingested, repeated,
                   donor_id, pattern, now, parserVars>>

\* dashboard: the report month is fetched and the donors are classified against
\* session_data's donor_history, whose gift lists the analyzer sorts in place
DashboardClassify ==
    /\ dashboard_request.pc = "fetch"
    /\ \E current_data \in SessionCurrentDatas \ {NoData} :
          /\ current_month_donors' = current_data.donors
          /\ \E lists \in {ClassifyDonorsSmart(current_data.donors,
                                               entries[dashboard_request.session_data].donor_history,
                                               now)} :
                /\ new_donors' = lists.new
                /\ changed_donors' = lists.changed
                /\ missed_donors' = lists.missed
                /\ normal_donors' = lists.normal
    /\ entries' = [entries EXCEPT
                      ![dashboard_request.session_data].donor_history =
                          AnalyzeAll(entries[dashboard_request.session_data].donor_history)]
    /\ dashboard_request' = [dashboard_request EXCEPT !.pc = "dashboard"]
    /\ UNCHANGED <<data_store, load_requests, completed_loads>>
    /\ UNCHANGED <<pc, donor_history, successful_months, month_index, ingested, repeated,
                   donor_id, pattern, now, parserVars>>

NextSession ==
    \/ Login
    \/ Logout
    \/ \E r \in LoadIds : LoadArrive(r)
    \/ \E r \in LoadIds : LoadCredentials(r)
    \/ \E r \in LoadIds : LoadMonth(r)
    \/ \E r \in LoadIds : LoadUpdate(r)
    \/ \E r \in LoadIds : LoadUpdateFails(r)
    \/ DashboardArrive
    \/ DashboardFetchFails
    \/ DashboardClassify

SpecSession == InitSession /\ [][NextSession]_vars

(***************************************************************************)
(* Claims about the web session, checked under SpecSession.                *)
(***************************************************************************)
\* the donors of a history with each donor's events in date order, whatever order they are stored in
ByDate(h) == AnalyzeAll(h)

\* every entry whose data_loaded is true holds the history of one complete load_data run
LoadedFromOneRun ==
    \A e \in 1..Len(entries) :
        entries[e].data_loaded =>
            \E h \in completed_loads : ByDate(entries[e].donor_history) = ByDate(h)

\* a dashboard request past its loading test holds an entry whose data_loaded is true
ClassifiesLoaded ==
    dashboard_request.pc \in {"fetch", "dashboard"} =>
        entries[dashboard_request.session_data].data_loaded

\* a step of a load_data request taken while the session id is not a key leaves it not a key
\* and creates no entry
NotRecreated ==
    (data_store = 0 /\ load_requests' # load_requests) =>
        data_store' = 0 /\ Len(entries') = Len(entries)

\* C14: under any interleaving of login, load_data, dashboard and logout requests for the
\* same session id, an entry with data_loaded true always holds a donor_history produced by
\* one complete load_data run, never a partially merged one; the dashboard classifies only
\* when data_loaded is true; and a load_data run that finishes after logout does not
\* recreate the removed entry
SessionPublishesWholeLoads ==
    /\ [](LoadedFromOneRun /\ ClassifiesLoaded)
    /\ [][NotRecreated]_vars

\* one load_data run ended in the error of an update after logout, another completed, the
\* dashboard classified against the completed history and sorted it in place, and the
\* session id is not a key
WitnessSessionPublishesWholeLoads ==
    /\ data_store = 0
    /\ load_requests[1].pc = "error"
    /\ load_requests[2].pc = "complete"
    /\ dashboard_request.pc = "dashboard"
    /\ \E e \in 1..Len(entries) :
          /\ entries[e].data_loaded
          /\ entries[e].donor_history \notin completed_loads
          /\ \E d \in Keys(entries[e].donor_history) : Len(Get(entries[e].donor_history, d)) = 2

=============================================================================
